---- MODULE Spec2Model ----
(***************************************************************************)
(* A model of torchdynamo/testing.py: the result comparison `same`, the    *)
(* loss reduction `reduce_to_scalar_loss`, the CompileCounter, the         *)
(* standard_test harness and the TestCase class fixtures.                  *)
(*                                                                         *)
(* Python values are records with one fixed shape:                         *)
(*   t     the type tag ("list", "tuple", "dict", "tensor", "int", ...)    *)
(*   v     the numeric value of an int, float or bool (True is 1)          *)
(*   s     the text of a str, the name of a device, the class name of an   *)
(*         object                                                          *)
(*   items the elements of a sequence, the values of a dict (in key        *)
(*         order), the attribute values of an object                       *)
(*   keys  the keys of a dict in insertion order, the names in an          *)
(*         object's __dict__                                               *)
(*   data  the flattened elements of a tensor, in units of 1/Scale         *)
(***************************************************************************)
EXTENDS Integers, Sequences, FiniteSets, TLC

VARIABLES
    pc,            \* position of the operation under study
    a, b,          \* same: the two arguments
    result,        \* same: [out, visited] once it has returned or raised
    out,           \* reduce_to_scalar_loss: the argument
    loss,          \* reduce_to_scalar_loss: [kind, v] once it has returned or raised
    frame_count,   \* CompileCounter.frame_count (standard_test: of `actual`)
    op_count,      \* CompileCounter.op_count (standard_test: of `actual`)
    history,       \* the graph modules the counter was called with, in order
    returned,      \* what the last compiler call returned
    st,            \* standard_test: its locals
    debug,         \* torchdynamo.config.debug
    prior_debug,   \* TestCase: cls.prior_debug of each class ("unset" before setUpClass)
    counters,      \* torchdynamo.utils.counters (the keys present)
    tc             \* TestCase: the runner's position and bookkeeping

sameVars == <<a, b, result>>
lossVars == <<out, loss>>
counterVars == <<frame_count, op_count, history, returned>>
tcVars == <<debug, prior_debug, counters, tc>>
vars == <<pc, a, b, result, out, loss, frame_count, op_count, history, returned,
          st, debug, prior_debug, counters, tc>>

-----------------------------------------------------------------------------
(* Bounds of the explored inputs *)

\* the largest number of nodes (containers and leaves) of a value handed to same
MaxSize == 3

-----------------------------------------------------------------------------
(* Python values *)

NoValue == [t |-> "unset", v |-> 0, s |-> "", items |-> <<>>, keys |-> <<>>, data |-> <<>>]

PyInt(n) == [NoValue EXCEPT !.t = "int", !.v = n]
PyBool(n) == [NoValue EXCEPT !.t = "bool", !.v = n]
PyNone == [NoValue EXCEPT !.t = "none"]
PyStr(x) == [NoValue EXCEPT !.t = "str", !.s = x]
PyList(xs) == [NoValue EXCEPT !.t = "list", !.items = xs]
PyTuple(xs) == [NoValue EXCEPT !.t = "tuple", !.items = xs]
PyDict(ks, xs) == [NoValue EXCEPT !.t = "dict", !.keys = ks, !.items = xs]
PyTensor(d) == [NoValue EXCEPT !.t = "tensor", !.data = d]
PyObj(cls, ks, xs) == [NoValue EXCEPT !.t = "obj", !.s = cls, !.keys = ks, !.items = xs]

RECURSIVE IndexOf(_, _, _)
\* the position of key k in the key sequence ks at or after i, 0 when absent
IndexOf(ks, k, i) ==
    IF i > Len(ks) THEN 0
    ELSE IF ks[i] = k THEN i
    ELSE IndexOf(ks, k, i + 1)

\* d[k] of a dict, getattr(o, k) of an object
Lookup(d, k) == d.items[IndexOf(d.keys, k, 1)]

HasKey(d, k) == IndexOf(d.keys, k, 1) # 0

KeySet(d) == {d.keys[i] : i \in 1..Len(d.keys)}

-----------------------------------------------------------------------------
(* same(a, b) *)

\* isinstance(a, (list, tuple, torch.nn.ParameterList, torch.Size))
SequenceTypes == {"list", "tuple", "ParameterList", "Size"}

\* isinstance(b, (list, tuple)); torch.Size is a subclass of tuple
ListOrTupleTypes == {"list", "tuple", "Size"}

\* a variant of ScalarTypes that lets a str through to a == b
ScalarTypesWithStr == {"int", "float", "none", "bool", "device", "str"}
\* isinstance(a, (int, float, type(None), bool, torch.device))
ScalarTypes == {"int", "float", "none", "bool", "device"}

NumberTypes == {"int", "float", "bool"}

\* the class names same compares attribute by attribute
OutputClassNames ==
    {"MaskedLMOutput", "Seq2SeqLMOutput", "CausalLMOutputWithCrossAttentions",
     "LongformerMaskedLMOutput", "Instances", "SquashedNormal", "Boxes", "Normal",
     "TanhTransform"}

\* a == b for a scalar a; numbers compare by value across int, float and bool.
\* A tensor b (whose == is element-wise) is outside the inputs explored here.
PyEq(x, y) ==
    IF x.t \in NumberTypes THEN y.t \in NumberTypes /\ x.v = y.v
    ELSE IF x.t = "none" THEN y.t = "none"
    ELSE x.t = y.t /\ x.s = y.s

\* whether two flattened tensors broadcast against each other
Broadcastable(x, y) ==
    Len(x.data) = Len(y.data) \/ Len(x.data) = 1 \/ Len(y.data) = 1

\* the outcome of one call: `o` is "True" or "False" (the value returned) or the
\* name of the exception raised; `seen` lists the (a, b) pairs same was called on
Outcome(o, seen) == [out |-> o, visited |-> seen]

Pair(x, y) == [a |-> x, b |-> y]

\* the tensor branch: the allclose result is only printed, the cosine similarity
\* and the top differences are only printed, and True is returned
SameTensor(x, y) ==
    IF y.t # "tensor" THEN "AssertionError"
    ELSE IF ~Broadcastable(x, y) THEN "RuntimeError"
    ELSE "True"

\* a variant of KeysMatch that only wants the keys of a among those of b
KeysSubset(x, y) == KeySet(x) \subseteq KeySet(y)
\* assert set(a.keys()) == set(b.keys())
KeysMatch(x, y) == KeySet(x) = KeySet(y)

RECURSIVE Same(_, _), SameAll(_, _, _), SameDict(_, _, _), SameAttrs(_, _, _)
RECURSIVE SameAllEager(_, _, _), SameDictPositional(_, _, _)

\* a variant of SameAll over a list built in full before all() looks at it
SameAllEager(xs, ys, i) ==
    IF i > Len(xs) \/ i > Len(ys) THEN Outcome("True", <<>>)
    ELSE LET r == Same(xs[i], ys[i]) IN
         IF r.out \notin {"True", "False"} THEN r
         ELSE LET rest == SameAllEager(xs, ys, i + 1) IN
              Outcome(IF rest.out = "True" THEN r.out ELSE rest.out,
                      r.visited \o rest.visited)

\* a variant of SameDict pairing the values by position instead of by key
SameDictPositional(x, y, i) ==
    IF i > Len(x.keys) THEN Outcome("True", <<>>)
    ELSE LET r == Same(x.items[i], y.items[i]) IN
         IF r.out = "True"
         THEN LET rest == SameDictPositional(x, y, i + 1) IN
              Outcome(rest.out, r.visited \o rest.visited)
         ELSE r

\* all(same(ai, bi) for ai, bi in zip(xs, ys)), from position i on: the generator
\* stops at the first falsy result, and an exception leaves it at once
SameAll(xs, ys, i) ==
    IF i > Len(xs) \/ i > Len(ys) THEN Outcome("True", <<>>)
    ELSE LET r == Same(xs[i], ys[i]) IN
         IF r.out = "True"
         THEN LET rest == SameAll(xs, ys, i + 1) IN
              Outcome(rest.out, r.visited \o rest.visited)
         ELSE r

\* for k in a.keys(): if not same(a[k], b[k]): return False / return True
SameDict(x, y, i) ==
    IF i > Len(x.keys) THEN Outcome("True", <<>>)
    ELSE LET r == Same(x.items[i], Lookup(y, x.keys[i])) IN
         IF r.out = "True"
         THEN LET rest == SameDict(x, y, i + 1) IN
              Outcome(rest.out, r.visited \o rest.visited)
         ELSE r

\* all(same(getattr(a, key), getattr(b, key)) for key in a.__dict__.keys())
SameAttrs(x, y, i) ==
    IF i > Len(x.keys) THEN Outcome("True", <<>>)
    ELSE IF ~HasKey(y, x.keys[i]) THEN Outcome("AttributeError", <<>>)
    ELSE LET r == Same(x.items[i], Lookup(y, x.keys[i])) IN
         IF r.out = "True"
         THEN LET rest == SameAttrs(x, y, i + 1) IN
              Outcome(rest.out, r.visited \o rest.visited)
         ELSE r

Same(x, y) ==
    LET here == <<Pair(x, y)>> IN
    IF x.t \in SequenceTypes THEN
        IF y.t \notin ListOrTupleTypes THEN Outcome("AssertionError", here)
        ELSE IF Len(x.items) # Len(y.items) THEN Outcome("False", here)
        ELSE LET r == SameAll(x.items, y.items, 1) IN Outcome(r.out, here \o r.visited)
    ELSE IF x.t = "dict" THEN
        IF y.t # "dict" THEN Outcome("AssertionError", here)
        ELSE IF ~KeysMatch(x, y) THEN Outcome("AssertionError", here)
        ELSE LET r == SameDict(x, y, 1) IN Outcome(r.out, here \o r.visited)
    ELSE IF x.t = "tensor" THEN Outcome(SameTensor(x, y), here)
    ELSE IF x.t \in ScalarTypes THEN
        Outcome(IF PyEq(x, y) THEN "True" ELSE "False", here)
    ELSE IF x.t = "obj" /\ x.s \in OutputClassNames THEN
        IF ~(y.t = "obj" /\ y.s = x.s) THEN Outcome("AssertionError", here)
        ELSE LET r == SameAttrs(x, y, 1) IN Outcome(r.out, here \o r.visited)
    ELSE Outcome("RuntimeError", here)

-----------------------------------------------------------------------------
(* The values same is explored on: every value of at most MaxSize nodes built  *)
(* from a set of leaves with containers of the given kinds ("list", "tuple",   *)
(* "dict", "obj"); the keys of a dict are drawn from DictKeys, in every order, *)
(* and an object is one of ObjShapes: a class name and its one attribute.      *)

DictKeys == {"k1", "k2"}

\* the key sequences of length n without repetition
KeySeqs(n) == {ks \in [1..n -> DictKeys] : \A i, j \in 1..n : ks[i] = ks[j] => i = j}

\* model outputs: the class name and the attribute that holds the payload
ObjShapes ==
    {<<"MaskedLMOutput", "logits">>, <<"SquashedNormal", "mean">>, <<"Boxes", "tensor">>}

RECURSIVE ValuesOfSize(_, _, _), ItemSeqs(_, _, _, _)

\* the sequences of values whose sizes add up to exactly n, of at most `len` items
ItemSeqs(leaves, kinds, n, len) ==
    IF n = 0 THEN {<<>>}
    ELSE IF len = 0 THEN {}
    ELSE UNION {{<<x>> \o rest : x \in ValuesOfSize(leaves, kinds, k),
                                 rest \in ItemSeqs(leaves, kinds, n - k, len - 1)}
                : k \in 1..n}

ValuesOfSize(leaves, kinds, n) ==
    LET seqs == ItemSeqs(leaves, kinds, n - 1, n - 1)
        vals == ItemSeqs(leaves, kinds, n - 1, Cardinality(DictKeys))
    IN  (IF n = 1 THEN leaves ELSE {})
        \cup (IF "list" \in kinds THEN {PyList(xs) : xs \in seqs} ELSE {})
        \cup (IF "tuple" \in kinds THEN {PyTuple(xs) : xs \in seqs} ELSE {})
        \cup (IF "dict" \in kinds
              THEN UNION {{PyDict(ks, xs) : ks \in KeySeqs(Len(xs))} : xs \in vals}
              ELSE {})
        \cup (IF "obj" \in kinds /\ n > 1
              THEN {PyObj(sh[1], <<sh[2]>>, <<x>>) :
                        sh \in ObjShapes, x \in ValuesOfSize(leaves, kinds, n - 1)}
              ELSE {})

ValuesUpTo(leaves, kinds, n) == UNION {ValuesOfSize(leaves, kinds, k) : k \in 1..n}

\* lists and dicts over two ints and an unsupported value (a str)
Values == ValuesUpTo({PyInt(1), PyInt(2), PyStr("x")}, {"list", "dict"}, MaxSize)

\* lists and tuples over the same leaves
SeqValues == ValuesUpTo({PyInt(1), PyInt(2), PyStr("x")}, {"list", "tuple"}, MaxSize)

\* values of supported types only: an int, a bool equal to it, None, lists, dicts
SupportedValues == ValuesUpTo({PyInt(1), PyBool(1), PyNone}, {"list", "dict"}, MaxSize)

-----------------------------------------------------------------------------
(* Values of the variables an operation does not use *)

NoResult == Outcome("none", <<>>)
NoLoss == [kind |-> "none", v |-> 0]

IdleSame == a = NoValue /\ b = NoValue /\ result = NoResult

-----------------------------------------------------------------------------
(* same, applied to a pair of values *)

IdleLoss == out = NoValue /\ loss = NoLoss
IdleCounter ==
    /\ frame_count = 0 /\ op_count = 0 /\ history = <<>>
    /\ returned = [by |-> "none", given |-> "", forward_of |-> ""]
IdleStd == st = "none"
IdleTestCase == debug = FALSE /\ prior_debug = "none" /\ counters = {} /\ tc = "none"

SameStart(as, bs) ==
    /\ pc = "call"
    /\ a \in as
    /\ b \in bs
    /\ result = NoResult
    /\ IdleLoss /\ IdleCounter /\ IdleStd /\ IdleTestCase

InitSame == SameStart(Values, Values)
InitSeq == SameStart(SeqValues, SeqValues)
InitSym == SameStart(SupportedValues, SupportedValues)

CallSame ==
    /\ pc = "call"
    /\ result' = Same(a, b)
    /\ pc' = "done"
    /\ UNCHANGED <<a, b, lossVars, counterVars, st, tcVars>>

NextSame == CallSame

SpecSame == InitSame /\ [][NextSame]_vars
SpecSeq == InitSeq /\ [][NextSame]_vars
SpecSym == InitSym /\ [][NextSame]_vars

-----------------------------------------------------------------------------
(* Tensors: flattened element sequences in units of 1/Scale, so that the      *)
(* tolerance 1e-4 is one unit.                                                *)

\* units per 1.0: atol = rtol = 1e-4 = 1/Scale
Scale == 10000

\* the longest flattened tensor explored
MaxTensorLen == 2

\* element values around the tolerance: 0 and 1e-4 and 2e-4, 1.0 and 1.0002
TensorElems == {0, 1, 2, Scale, Scale + 2}

Tensors == {PyTensor(d) : d \in UNION {[1..n -> TensorElems] : n \in 1..MaxTensorLen}}

Abs(n) == IF n < 0 THEN -n ELSE n

\* element i of a flattened tensor broadcast to a longer one
Elem(x, i) == IF Len(x.data) = 1 THEN x.data[1] ELSE x.data[i]

\* torch.allclose(a, b, atol=1e-4, rtol=1e-4): |a - b| <= atol + rtol * |b|
\* for every element, here multiplied through by Scale
AllClose(x, y) ==
    LET n == IF Len(x.data) > Len(y.data) THEN Len(x.data) ELSE Len(y.data) IN
    \A i \in 1..n :
        Scale * Abs(Elem(x, i) - Elem(y, i)) <= Scale + Abs(Elem(y, i))

InitTensor == SameStart(Tensors, Tensors)
SpecTensor == InitTensor /\ [][NextSame]_vars

-----------------------------------------------------------------------------
(* reduce_to_scalar_loss(out) *)

\* a variant of TupleTypes that takes a list for a tuple
TupleTypesWithList == {"tuple", "Size", "list"}
\* isinstance(out, tuple); torch.Size is a subclass of tuple
TupleTypes == {"tuple", "Size"}

\* the classes reduced through their logits
LogitsClassNames ==
    {"MaskedLMOutput", "Seq2SeqLMOutput", "CausalLMOutputWithCrossAttentions"}

RECURSIVE SumSeq(_, _)
\* Tensor.sum() of the flattened elements from position i on
SumSeq(d, i) == IF i > Len(d) THEN 0 ELSE d[i] + SumSeq(d, i + 1)

\* a scalar returned, or the exception raised
Scalar(n) == [kind |-> "value", v |-> n]
Raised(e) == [kind |-> e, v |-> 0]

RECURSIVE ReduceToScalarLoss(_), SumReduced(_, _)

\* sum([reduce_to_scalar_loss(x) for x in xs]): the list is built item by item,
\* the first exception leaves it, and the sum starts from 0
SumReduced(xs, i) ==
    IF i > Len(xs) THEN Scalar(0)
    ELSE LET r == ReduceToScalarLoss(xs[i]) IN
         IF r.kind # "value" THEN r
         ELSE LET rest == SumReduced(xs, i + 1) IN
              IF rest.kind # "value" THEN rest ELSE Scalar(r.v + rest.v)

\* getattr(out, name), then the reduction of it
ReduceAttr(x, name) ==
    IF HasKey(x, name) THEN ReduceToScalarLoss(Lookup(x, name))
    ELSE Raised("AttributeError")

ReduceToScalarLoss(x) ==
    IF x.t = "tensor" THEN Scalar(SumSeq(x.data, 1))
    ELSE IF x.t \in TupleTypes THEN SumReduced(x.items, 1)
    ELSE IF x.t = "obj" /\ x.s \in LogitsClassNames THEN ReduceAttr(x, "logits")
    ELSE IF x.t = "obj" /\ x.s = "SquashedNormal" THEN ReduceAttr(x, "mean")
    ELSE IF x.t = "dict" THEN SumReduced(x.items, 1)
    ELSE Raised("NotImplementedError")

\* model outputs: two tensors and an int at the leaves, under lists, tuples,
\* dicts and output objects
LossValues ==
    ValuesUpTo({PyTensor(<<1>>), PyTensor(<<2, 3>>), PyInt(1)},
               {"list", "tuple", "dict", "obj"}, MaxSize)

InitLoss ==
    /\ pc = "call"
    /\ out \in LossValues
    /\ loss = NoLoss
    /\ IdleSame /\ IdleCounter /\ IdleStd /\ IdleTestCase

CallReduce ==
    /\ pc = "call"
    /\ loss' = ReduceToScalarLoss(out)
    /\ pc' = "done"
    /\ UNCHANGED <<out, sameVars, counterVars, st, tcVars>>

NextLoss == CallReduce

SpecLoss == InitLoss /\ [][NextLoss]_vars

-----------------------------------------------------------------------------
(* CompileCounter and dummy_fx_compile *)

\* the most calls of a compiler explored in a row
MaxCalls == 3

\* FX graph modules: a name and the op kind of every node of gm.graph, in order
GraphModules ==
    {[name |-> "gm_output", nodes |-> <<"output">>],
     [name |-> "gm_add", nodes |-> <<"placeholder", "call_function", "output">>],
     [name |-> "gm_linear",
      nodes |-> <<"placeholder", "get_attr", "call_module", "call_method", "output">>],
     [name |-> "gm_chain",
      nodes |-> <<"placeholder", "placeholder", "call_function", "call_method",
                  "call_function", "output">>]}

\* a variant of ContainsCall that compares instead of searching
ContainsCallExact(op) == op = "call_function"
\* "call" in node.op
ContainsCall(op) == op \in {"call_function", "call_method", "call_module"}

RECURSIVE CountCalls(_, _, _)
\* for node in gm.graph.nodes: if "call" in node.op: count += 1, from node i on
CountCalls(nodes, i, count) ==
    IF i > Len(nodes) THEN count
    ELSE CountCalls(nodes, i + 1, IF ContainsCall(nodes[i]) THEN count + 1 ELSE count)

\* what a compiler call returned: who was called, with which graph module, and
\* whose forward it handed back
NothingReturned == [by |-> "none", given |-> "", forward_of |-> ""]

\* CompileCounter.__call__(gm)
CompileCounterCall(gm) ==
    /\ frame_count' = frame_count + 1
    /\ op_count' = CountCalls(gm.nodes, 1, op_count)
    /\ history' = Append(history, gm)
    /\ returned' = [by |-> "CompileCounter", given |-> gm.name, forward_of |-> gm.name]

InitCounter ==
    /\ pc = "counter"
    /\ frame_count = 0
    /\ op_count = 0
    /\ history = <<>>
    /\ returned = NothingReturned
    /\ IdleSame /\ IdleLoss /\ IdleStd /\ IdleTestCase

CallCounter ==
    /\ pc = "counter"
    /\ Len(history) < MaxCalls
    /\ \E gm \in GraphModules : CompileCounterCall(gm)
    /\ UNCHANGED <<pc, sameVars, lossVars, st, tcVars>>

\* dummy_fx_compile(gm)
DummyFxCompile ==
    /\ pc = "counter"
    /\ \E gm \in GraphModules :
           returned' = [by |-> "dummy_fx_compile", given |-> gm.name,
                        forward_of |-> gm.name]
    /\ UNCHANGED <<pc, frame_count, op_count, history, sameVars, lossVars, st, tcVars>>

NextCounter == CallCounter \/ DummyFxCompile

SpecCounter == InitCounter /\ [][NextCounter]_vars

-----------------------------------------------------------------------------
(* standard_test(self, fn, nargs, expected_ops=None) *)

\* the largest expected_ops a caller passes
MaxExpectedOps == 3

\* expected_ops is None
None == -1

\* what fn returns, unoptimized or optimized: a tensor, or a Python int
ResultValues == {PyTensor(<<1>>), PyTensor(<<2>>), PyInt(1), PyInt(2)}

\* the graphs the optimizer may capture from fn and hand to the compiler: the
\* one FX traces, or another one
CapturedGraphs(fn) == {gm \in GraphModules : gm = fn \/ gm.name = "gm_add"}

\* the arguments of the four optimized calls: args1, args2, args1, args2
ArgOrder == <<1, 2, 1, 2>>

\* the reference results the four values are compared with, in the order of the
\* assertions: (val1a, correct1), (val1b, correct1), (val2a, correct2), (val2b, correct2)
AssertedPairs(s) ==
    <<Pair(s.vals[1], s.correct[1]), Pair(s.vals[3], s.correct[1]),
      Pair(s.vals[2], s.correct[2]), Pair(s.vals[4], s.correct[2])>>

\* a variant of FrameCountOk that accepts recompilations
FrameCountAtLeastOne(n) == n >= 1
\* self.assertEqual(actual.frame_count, 1)
FrameCountOk(n) == n = 1

\* a variant of ExpectedOpsAfterFx that assigns expected_ops before the printing
ExpectedOpsUnlessTraceFails(fx, gm) ==
    IF fx # "trace_raises" THEN CountCalls(gm.nodes, 1, 0) ELSE None
\* the try block: expected_ops is assigned after symbolic_trace, expected(gm)
\* and gm.graph.print_tabular() have all returned; any Exception is swallowed
ExpectedOpsAfterFx(fx, gm) ==
    IF fx = "ok" THEN CountCalls(gm.nodes, 1, 0) ELSE None

\* how the FX block can end: it completes, symbolic_trace raises, or a later
\* call of the block (print_tabular needs the tabulate package) raises
FxOutcomes == {"ok", "trace_raises", "print_raises"}

InitStd ==
    /\ pc = "fx"
    /\ frame_count = 0 /\ op_count = 0 /\ history = <<>> /\ returned = NothingReturned
    /\ \E gm \in GraphModules, ops \in {None} \cup 0..MaxExpectedOps :
           st = [fn |-> gm, param |-> ops, expected_ops |-> ops, fx |-> "skipped",
                 correct |-> <<>>, calls |-> <<>>, vals |-> <<>>,
                 outcome |-> "running", failed_at |-> "", ops_asserted |-> FALSE]
    /\ IdleSame /\ IdleLoss /\ IdleTestCase

\* lines 157-167: the counters are created and, without expected_ops, fn is
\* traced with FX to learn the expected op count
TraceFx ==
    /\ pc = "fx"
    /\ IF st.expected_ops = None
       THEN \E fx \in FxOutcomes :
                st' = [st EXCEPT !.fx = fx, !.expected_ops = ExpectedOpsAfterFx(fx, st.fn)]
       ELSE st' = st
    /\ pc' = "reference"
    /\ UNCHANGED <<sameVars, lossVars, counterVars, tcVars>>

\* lines 169-172: the unoptimized results for args1 and args2
RunReference ==
    /\ pc = "reference"
    /\ \E c1, c2 \in ResultValues :
           /\ c1.t = c2.t
           /\ st' = [st EXCEPT !.correct = <<c1, c2>>]
    /\ pc' = "optimize"
    /\ UNCHANGED <<sameVars, lossVars, counterVars, tcVars>>

\* lines 173-177, one call of fn under optimize_assert(actual): the optimizer
\* either reuses what it has or hands a captured graph to `actual`, and the call
\* returns some value of the type fn returns
OptimizedCall ==
    /\ pc = "optimize"
    /\ Len(st.calls) < Len(ArgOrder)
    /\ \E val \in ResultValues :
           /\ val.t = st.correct[1].t
           /\ st' = [st EXCEPT !.calls = Append(@, ArgOrder[Len(@) + 1]),
                                !.vals = Append(@, val)]
    /\ \/ UNCHANGED counterVars
       \/ \E gm \in CapturedGraphs(st.fn) : CompileCounterCall(gm)
    /\ pc' = IF Len(st.calls) + 1 = Len(ArgOrder) THEN "assert" ELSE "optimize"
    /\ UNCHANGED <<sameVars, lossVars, tcVars>>

\* a call under optimize_assert raises (a graph break, an unsupported construct)
OptimizedCallRaises ==
    /\ pc = "optimize"
    /\ Len(st.calls) < Len(ArgOrder)
    /\ st' = [st EXCEPT !.calls = Append(@, ArgOrder[Len(@) + 1]),
                        !.outcome = "error", !.failed_at = "optimize"]
    /\ pc' = "done"
    /\ UNCHANGED <<sameVars, lossVars, counterVars, tcVars>>

\* the first of the four assertTrue(same(...)) that does not pass: 0 when all pass
FirstFailedSame(s) ==
    LET bad == {i \in 1..4 : Same(AssertedPairs(s)[i].a, AssertedPairs(s)[i].b).out # "True"}
    IN  IF bad = {} THEN 0 ELSE CHOOSE i \in bad : \A j \in bad : i <= j

\* lines 178-184: the assertions, in order; the first that fails ends the test
RunAssertions ==
    /\ pc = "assert"
    /\ LET f == FirstFailedSame(st) IN
       IF f # 0
       THEN st' = [st EXCEPT
                     !.outcome = IF Same(AssertedPairs(st)[f].a, AssertedPairs(st)[f].b).out
                                     = "False"
                                 THEN "failed" ELSE "error",
                     !.failed_at = "same"]
       ELSE IF ~FrameCountOk(frame_count)
       THEN st' = [st EXCEPT !.outcome = "failed", !.failed_at = "frame_count"]
       ELSE IF st.expected_ops = None
       THEN st' = [st EXCEPT !.outcome = "passed"]
       ELSE IF op_count # st.expected_ops
       THEN st' = [st EXCEPT !.outcome = "failed", !.failed_at = "op_count",
                             !.ops_asserted = TRUE]
       ELSE st' = [st EXCEPT !.outcome = "passed", !.ops_asserted = TRUE]
    /\ pc' = "done"
    /\ UNCHANGED <<sameVars, lossVars, counterVars, tcVars>>

NextStd == TraceFx \/ RunReference \/ OptimizedCall \/ OptimizedCallRaises \/ RunAssertions

SpecStd == InitStd /\ [][NextStd]_vars

-----------------------------------------------------------------------------
(* TestCase: setUpClass, setUp, tearDown, tearDownClass, as unittest runs them *)

\* the most classes set up one after another, and the most tests run per class
MaxClassRuns == 3
MaxTests == 2

TestClasses == {"TestA", "TestB"}

\* the counters a test body may touch
CounterKeys == {"frames", "graph_break"}

\* cls.prior_debug: absent until setUpClass stores it
Unset == [set |-> FALSE, v |-> FALSE]
Stored(d) == [set |-> TRUE, v |-> d]

\* a variant of RestoredDebug that switches the flag off
AlwaysOff(cls) == FALSE
\* torchdynamo.config.debug = cls.prior_debug
RestoredDebug(cls) == prior_debug[cls].v

InitTestCase ==
    /\ pc = "outside"
    /\ debug \in BOOLEAN
    /\ prior_debug = [c \in TestClasses |-> Unset]
    /\ counters = {}
    /\ tc = [cls |-> "", runs |-> 0, tests |-> 0, before |-> FALSE, last |-> ""]
    /\ IdleSame /\ IdleLoss /\ IdleCounter /\ IdleStd

\* code outside the test classes sets the flag
SetDebug ==
    /\ pc = "outside"
    /\ debug' \in BOOLEAN
    /\ tc' = [tc EXCEPT !.last = "SetDebug"]
    /\ UNCHANGED <<pc, prior_debug, counters, sameVars, lossVars, counterVars, st>>

\* setUpClass: torchdynamo.reset() clears the compile caches, then the flag is
\* saved on the class and switched on
SetUpClass ==
    /\ pc = "outside"
    /\ tc.runs < MaxClassRuns
    /\ \E cls \in TestClasses :
           /\ prior_debug' = [prior_debug EXCEPT ![cls] = Stored(debug)]
           /\ tc' = [tc EXCEPT !.cls = cls, !.runs = @ + 1, !.tests = 0,
                               !.before = debug, !.last = "setUpClass"]
    /\ debug' = TRUE
    /\ pc' = "class"
    /\ UNCHANGED <<counters, sameVars, lossVars, counterVars, st>>

\* setUp: the counters are cleared
SetUp ==
    /\ pc = "class"
    /\ tc.tests < MaxTests
    /\ counters' = {}
    /\ tc' = [tc EXCEPT !.tests = @ + 1, !.last = "setUp"]
    /\ pc' = "test"
    /\ UNCHANGED <<debug, prior_debug, sameVars, lossVars, counterVars, st>>

\* the body of a test bumps a counter
TestBody ==
    /\ pc = "test"
    /\ \E k \in CounterKeys : counters' = counters \cup {k}
    /\ tc' = [tc EXCEPT !.last = "test"]
    /\ UNCHANGED <<pc, debug, prior_debug, sameVars, lossVars, counterVars, st>>

\* tearDown: the counters are printed and cleared
TearDown ==
    /\ pc = "test"
    /\ counters' = {}
    /\ tc' = [tc EXCEPT !.last = "tearDown"]
    /\ pc' = "class"
    /\ UNCHANGED <<debug, prior_debug, sameVars, lossVars, counterVars, st>>

\* tearDownClass: torchdynamo.reset(), then the saved flag is put back
TearDownClass ==
    /\ pc = "class"
    /\ debug' = RestoredDebug(tc.cls)
    /\ tc' = [tc EXCEPT !.last = "tearDownClass"]
    /\ pc' = "outside"
    /\ UNCHANGED <<prior_debug, counters, sameVars, lossVars, counterVars, st>>

NextTestCase == SetDebug \/ SetUpClass \/ SetUp \/ TestBody \/ TearDown \/ TearDownClass

SpecTestCase == InitTestCase /\ [][NextTestCase]_vars

-----------------------------------------------------------------------------
(* Properties of same *)

Returned == pc = "done"

RECURSIVE ChildVisits(_, _, _)
\* the pairs visited below the first n element pairs of xs and ys, in order
ChildVisits(xs, ys, n) ==
    IF n = 0 THEN <<>>
    ELSE ChildVisits(xs, ys, n - 1) \o Same(xs[n], ys[n]).visited

\* the first position whose element pair does not compare True, Len(xs) + 1 if none
FirstStop(xs, ys) ==
    LET bad == {i \in 1..Len(xs) : Same(xs[i], ys[i]).out # "True"} IN
    IF bad = {} THEN Len(xs) + 1 ELSE CHOOSE i \in bad : \A j \in bad : i <= j

\* what a loop over the element pairs that stops at the first pair not comparing
\* True returns and visits
StopsAtFirst(xs, ys, res) ==
    LET f == FirstStop(xs, ys) IN
    IF f > Len(xs)
    THEN res = Outcome("True", <<Pair(a, b)>> \o ChildVisits(xs, ys, Len(xs)))
    ELSE res = Outcome(Same(xs[f], ys[f]).out, <<Pair(a, b)>> \o ChildVisits(xs, ys, f))

\* C1: for two tensors same returns True only when they match element-wise
\* within atol = rtol = 1e-4, and returns False when they differ by more.
C1_TensorWithinTolerance ==
    (Returned /\ a.t = "tensor" /\ b.t = "tensor") =>
        /\ (result.out = "True" => AllClose(a, b))
        /\ (~AllClose(a, b) => result.out = "False")

\* C2: for a sequence a and a list or tuple b, same returns True iff the lengths
\* are equal and every element pair compares True; with different lengths it
\* returns False having compared no element, and no element pair after the first
\* one that does not match is compared.
C2_SequenceCompare ==
    (Returned /\ a.t \in {"list", "tuple", "ParameterList", "Size"}
              /\ b.t \in {"list", "tuple"}) =>
        /\ (result.out = "True") <=>
              /\ Len(a.items) = Len(b.items)
              /\ \A i \in 1..Len(a.items) : Same(a.items[i], b.items[i]).out = "True"
        /\ Len(a.items) # Len(b.items) => result = Outcome("False", <<Pair(a, b)>>)
        /\ Len(a.items) = Len(b.items) => StopsAtFirst(a.items, b.items, result)

\* C2 witness: the first pair does not match, the second one would have raised
C2_Witness ==
    /\ Returned /\ a.t = "list" /\ b.t = "tuple"
    /\ Len(a.items) = 2 /\ Len(b.items) = 2
    /\ Same(a.items[1], b.items[1]).out = "False"
    /\ Same(a.items[2], b.items[2]).out = "RuntimeError"
    /\ result.out = "False"

\* the values of b under the keys of a, in the key order of a
ValuesByKeysOf(x, y) == [i \in 1..Len(x.keys) |-> Lookup(y, x.keys[i])]

\* C6: for a dict a, same raises AssertionError when b is no dict or has another
\* key set; with equal key sets it returns True iff the values under every key
\* compare True, and returns False at the first key of a whose values do not match.
C6_DictCompare ==
    (Returned /\ a.t = "dict") =>
        /\ (b.t # "dict" \/ KeySet(a) # KeySet(b)) =>
              result = Outcome("AssertionError", <<Pair(a, b)>>)
        /\ (b.t = "dict" /\ KeySet(a) = KeySet(b)) =>
              /\ (result.out = "True") <=>
                    \A k \in KeySet(a) : Same(Lookup(a, k), Lookup(b, k)).out = "True"
              /\ StopsAtFirst(a.items, ValuesByKeysOf(a, b), result)

\* C6 witness: two dicts with the same keys in different orders whose values
\* under the first key of a do not match
C6_Witness ==
    /\ Returned /\ a.t = "dict" /\ b.t = "dict"
    /\ Len(a.keys) = 2 /\ KeySet(a) = KeySet(b) /\ a.keys # b.keys
    /\ Same(a.items[1], Lookup(b, a.keys[1])).out = "False"
    /\ Same(a.items[2], Lookup(b, a.keys[2])).out # "False"
    /\ result.out = "False"

\* the types same supports on its left-hand side
SupportedTags ==
    {"list", "tuple", "ParameterList", "Size", "dict", "tensor",
     "int", "float", "none", "bool", "device"}

SupportedClassNames ==
    {"MaskedLMOutput", "Seq2SeqLMOutput", "CausalLMOutputWithCrossAttentions",
     "LongformerMaskedLMOutput", "Instances", "SquashedNormal", "Boxes", "Normal",
     "TanhTransform"}

Unsupported(x) ==
    x.t \notin SupportedTags /\ ~(x.t = "obj" /\ x.s \in SupportedClassNames)

\* C7: whenever the comparison reaches, at the top level or nested, a left-hand
\* value of an unsupported type, same raises RuntimeError, whatever b is there.
C7_UnsupportedRaises ==
    Returned =>
        \A i \in 1..Len(result.visited) :
            Unsupported(result.visited[i].a) => result.out = "RuntimeError"

\* C7 witness: a str reached at a nested position, opposite a list
C7_Witness ==
    /\ Returned /\ Len(result.visited) > 1
    /\ LET last == result.visited[Len(result.visited)] IN
           last.a.t = "str" /\ last.b.t = "list"
    /\ result.out = "RuntimeError"

\* what a caller observes: the boolean returned, or that the call raised
Observed(o) == IF o \in {"True", "False"} THEN o ELSE "raised"

\* C10: same(a, b) and same(b, a) return the same boolean or both raise.
C10_Symmetric ==
    Returned => Observed(result.out) = Observed(Same(b, a).out)

\* C10 as amended: same(a, b) returns True iff same(b, a) does, and when both
\* return they return the same boolean (one order may return False where the
\* other raises AssertionError).
C10_SymmetricWhenBothReturn ==
    Returned =>
        /\ (result.out = "True") <=> (Same(b, a).out = "True")
        /\ (result.out \in {"True", "False"} /\ Same(b, a).out \in {"True", "False"})
              => result.out = Same(b, a).out

\* C10 witness: two different values of different leaf types that compare True
C10_Witness ==
    /\ Returned /\ a # b /\ a.t = "list" /\ Len(a.items) = 2
    /\ result.out = "True" /\ Same(b, a).out = "True"

-----------------------------------------------------------------------------
(* Properties of reduce_to_scalar_loss *)

\* the sum of the elements of a tensor, counted from its last element
RECURSIVE ElementSum(_, _)
ElementSum(d, n) == IF n = 0 THEN 0 ELSE ElementSum(d, n - 1) + d[n]

RECURSIVE ValueSum(_, _)
\* the sum of the reductions of the first n items of xs
ValueSum(xs, n) ==
    IF n = 0 THEN 0 ELSE ValueSum(xs, n - 1) + ReduceToScalarLoss(xs[n]).v

\* the loss of a tuple or dict with the items xs: the sum of the reductions of
\* every item, an item that cannot be reduced making the whole raise
IsSumOfItems(xs, res) ==
    IF \A i \in 1..Len(xs) : ReduceToScalarLoss(xs[i]).kind = "value"
    THEN res = Scalar(ValueSum(xs, Len(xs)))
    ELSE res.kind = "NotImplementedError"

\* C5: a tensor reduces to the sum of its elements, a tuple or dict to the sum
\* of the reductions of its items or values, a MaskedLMOutput, Seq2SeqLMOutput
\* or CausalLMOutputWithCrossAttentions to the reduction of its logits, a
\* SquashedNormal to that of its mean; anything else, a list included, raises
\* NotImplementedError.
C5_ReduceToScalarLoss ==
    (pc = "done" /\ out # NoValue) =>
        CASE out.t = "tensor" -> loss = Scalar(ElementSum(out.data, Len(out.data)))
          [] out.t \in {"tuple", "dict"} -> IsSumOfItems(out.items, loss)
          [] out.t = "obj" /\ out.s \in {"MaskedLMOutput", "Seq2SeqLMOutput",
                                         "CausalLMOutputWithCrossAttentions"} ->
                 loss = ReduceToScalarLoss(Lookup(out, "logits"))
          [] out.t = "obj" /\ out.s = "SquashedNormal" ->
                 loss = ReduceToScalarLoss(Lookup(out, "mean"))
          [] OTHER -> loss = Raised("NotImplementedError")

\* C5 witness: a tuple holding a dict and a tensor, reduced to the sum of both
C5_Witness ==
    /\ pc = "done" /\ out.t = "tuple" /\ Len(out.items) = 2
    /\ \E i \in 1..2 : out.items[i].t = "dict"
    /\ \E i \in 1..2 : out.items[i].t = "tensor"
    /\ loss.kind = "value"

-----------------------------------------------------------------------------
(* Properties of CompileCounter *)

\* the nodes of a graph whose op kind contains "call"
CallNodes(gm) ==
    Cardinality({i \in 1..Len(gm.nodes) :
                    gm.nodes[i] \in {"call_function", "call_method", "call_module"}})

RECURSIVE TotalCallNodes(_, _)
\* the call nodes of the first n graphs of a sequence of graphs
TotalCallNodes(gms, n) ==
    IF n = 0 THEN 0 ELSE TotalCallNodes(gms, n - 1) + CallNodes(gms[n])

\* the counters of a CompileCounter after the calls made so far, and what its
\* last call returned
CountsMatchCalls ==
    /\ frame_count = Len(history)
    /\ op_count = TotalCallNodes(history, Len(history))
    /\ returned.by # "none" => returned.forward_of = returned.given
    /\ returned.by = "CompileCounter" =>
           Len(history) > 0 /\ returned.given = history[Len(history)].name

\* C3: a CompileCounter starts at frame_count = 0 and op_count = 0; after any
\* sequence of calls frame_count is the number of calls and op_count the number
\* of call_function, call_method and call_module nodes of all the graphs passed;
\* neither counter ever decreases; each call returns the forward of its graph.
C3_CounterCounts ==
    /\ [](pc = "counter" => CountsMatchCalls)
    /\ [][pc = "counter" => (frame_count' >= frame_count /\ op_count' >= op_count)]_vars

\* C3 witness: three calls, the last on a graph with placeholder, get_attr and
\* output nodes beside its call nodes
C3_Witness ==
    /\ pc = "counter" /\ Len(history) = 3 /\ frame_count = 3
    /\ history[1].name = "gm_output" /\ history[3].name = "gm_linear"
    /\ op_count > 2
    /\ returned.by = "CompileCounter"

-----------------------------------------------------------------------------
(* Properties of standard_test *)

\* C4: standard_test calls fn four times under the optimizer, on args1, args2,
\* args1, args2, and passes only if the compile counter was invoked exactly once
\* over those calls, each of the four optimized results is `same` as the
\* unoptimized result on the same arguments and, when an expected op count is
\* known, op_count equals it; no or several compilations make the test fail.
C4_PassesOnlyIf ==
    /\ (pc = "done" /\ st.outcome = "passed") =>
           /\ st.calls = <<1, 2, 1, 2>>
           /\ Len(history) = 1
           /\ \A i \in 1..4 : Same(st.vals[i], st.correct[st.calls[i]]).out = "True"
           /\ st.expected_ops # None => op_count = st.expected_ops
    /\ (pc = "done" /\ Len(st.calls) = 4 /\ Len(history) # 1) =>
           st.outcome \in {"failed", "error"}

\* C4 witness: a passing test with a known op count, one compilation over the
\* four calls, and results that differ between args1 and args2
C4_Witness ==
    /\ pc = "done" /\ st.outcome = "passed" /\ st.param # None
    /\ Len(history) = 1 /\ op_count > 0
    /\ st.correct[1] # st.correct[2]

\* standard_test got as far as the op-count check of line 183
ReachedOpsCheck ==
    pc = "done" /\ (st.outcome = "passed" \/ st.failed_at = "op_count")

\* C8: without expected_ops, the op-count assertion is skipped only when
\* symbolic_trace fails: whenever it succeeds, expected_ops is the number of call
\* nodes of the traced graph and op_count is asserted equal to it; a failure of
\* FX never makes standard_test fail.
C8_SkippedOnlyWhenTraceFails ==
    /\ (ReachedOpsCheck /\ st.param = None /\ st.fx # "trace_raises") =>
           st.expected_ops = CallNodes(st.fn) /\ st.ops_asserted
    /\ st.failed_at # "fx"

\* C8 as amended: the assertion is skipped exactly when some call of the FX
\* block raised (symbolic_trace, the counting call, print_tabular); when the
\* whole block succeeds expected_ops is the number of call nodes of the traced
\* graph and op_count is asserted equal to it; a test that fails after a failure
\* of FX fails at another step.
C8_SkippedWhenFxBlockFails ==
    /\ (ReachedOpsCheck /\ st.param = None) =>
           /\ st.ops_asserted <=> st.fx = "ok"
           /\ st.fx = "ok" => st.expected_ops = CallNodes(st.fn)
           /\ st.fx # "ok" => st.expected_ops = None
    /\ (st.fx \in {"trace_raises", "print_raises"} /\ st.outcome # "running") =>
           /\ st.failed_at \in {"", "optimize", "same", "frame_count"}
           /\ st.failed_at = "" <=> st.outcome = "passed"

\* C8 witness: FX traced fn, a later call of the block raised, and the test
\* passed without the op-count assertion
C8_Witness ==
    /\ pc = "done" /\ st.param = None /\ st.fx = "print_raises"
    /\ st.outcome = "passed" /\ ~st.ops_asserted
    /\ op_count # CallNodes(st.fn)

-----------------------------------------------------------------------------
(* Properties of TestCase *)

\* C9: config.debug is True from the end of setUpClass until tearDownClass, and
\* after tearDownClass it has the value it had immediately before setUpClass,
\* whatever that was, however many tests ran, and for classes run one after
\* another.
C9_DebugRestored ==
    /\ pc \in {"class", "test"} => debug = TRUE
    /\ (pc = "outside" /\ tc.last = "tearDownClass") => debug = tc.before

\* C9 witness: the second class torn down after two tests, the flag back to True
C9_Witness ==
    /\ pc = "outside" /\ tc.last = "tearDownClass"
    /\ tc.runs = 2 /\ tc.tests = 2 /\ tc.before = TRUE /\ debug = TRUE
    /\ prior_debug["TestA"] = Stored(FALSE) /\ prior_debug["TestB"] = Stored(TRUE)

====
